---- MODULE Spec2Model ----
(***************************************************************************)
(* The task/board store of svelte-kanban (src/lib/stores/kanban.svelte.ts) *)
(* as a state machine: the task collection, the selection, the error       *)
(* message, the loading flag, the localStorage blob and an exported        *)
(* snapshot, with one action per public method of KanbanStore.             *)
(*                                                                         *)
(* Values.  A Date is [k |-> "Date", t |-> ms]; ms < 0 is an Invalid Date. *)
(* A JSON date is a string [k |-> "string"], null or undefined.  A task    *)
(* object carries obj, its identity on the heap: two records with the same *)
(* obj are one JavaScript object seen through two references (the proxied  *)
(* array, the selection, an exported board).  The store runs in a browser:  *)
(* typeof localStorage !== 'undefined' holds throughout.                   *)
(***************************************************************************)
EXTENDS Integers, Sequences, FiniteSets, TLC

\* ---------------------------------------------------------------- bounds
MaxTasks == 2      \* tasks the collection may hold
MaxIds == 3        \* ids crypto.randomUUID() hands out in one run
MaxTime == 2       \* clock readings 1..MaxTime
MaxOps == 3        \* steps of one run (exportData, which changes nothing, is free)
MaxTotal == 40     \* collection sizes the completion rate is computed for
MaxNavOps == 4     \* navigation-store calls in one run

\* ------------------------------------------------------------ vocabulary
TaskStatus == {"todo", "in-progress", "testing", "done"}
NonExistentId == 0

ErrSave == "Failed to save data locally"
ErrLoad == "Failed to load saved data"
ErrImport == "Failed to import data"
NoError == "null"

Date(t) == [k |-> "Date", t |-> t]
InvalidDate == [k |-> "Date", t |-> -1]
JString(t) == [k |-> "string", t |-> t]
JNull == [k |-> "null", t |-> 0]
JUndefined == [k |-> "undefined", t |-> 0]

\* Date.prototype.toJSON: the ISO string, or null for an Invalid Date.
toJSON(d) == IF d.t < 0 THEN JNull ELSE JString(d.t)

\* new Date(v): a copy of a Date, the parsed string, the epoch for null,
\* an Invalid Date for undefined or an unparseable string.
NewDate(v) ==
    CASE v.k = "Date" -> v
      [] v.k = "string" -> IF v.t < 0 THEN InvalidDate ELSE Date(v.t)
      [] v.k = "null" -> Date(0)
      [] OTHER -> InvalidDate

\* selectedTask = null
NoTask == [obj |-> 0]

VARIABLES
    tasks,            \* private tasks = $state<TaskItem[]>([])
    isLoading,        \* private isLoading
    error,            \* private error: a message or NoError
    selectedTask,     \* private selectedTask: a task object or NoTask
    storage,          \* localStorage['kanban_board_data']
    setItemThrows,    \* localStorage.setItem throws (quota exceeded)
    now,              \* the clock new Date() reads
    nextId,           \* how many ids crypto.randomUUID() has handed out
    exported,         \* the object the last exportData() returned
    lastOp,           \* the last operation called: [name, id, arg]
    ret,              \* what it returned: [ok, n, tasks]
    scen,             \* add-then-delete and export-empty-import, as they unfold
    nOps,             \* steps taken so far
    rateTotal,        \* totalTasks of a collection whose rate is computed
    rateCompleted,    \* its completedTasks
    rateResult,       \* its completionRate, -1 before it is computed
    navItems,         \* NavigationStore: private items = $state<NavigationItem[]>
    activeItem,       \* NavigationStore: private activeItem
    sidebarCollapsed, \* NavigationStore: private sidebarCollapsed
    navScen,          \* navigateNext and navigatePrevious in a row, as they unfold
    columns           \* KanbanStore: private columns (id, title, color of each)

vars == <<tasks, isLoading, error, selectedTask, storage, setItemThrows, now,
          nextId, exported, lastOp, ret, scen, nOps, rateTotal, rateCompleted, rateResult,
          navItems, activeItem, sidebarCollapsed, navScen, columns>>

\* What the task store's handlers, updateColumnConfig apart, leave alone.
aside == <<rateTotal, rateCompleted, rateResult, navItems, activeItem, sidebarCollapsed,
           navScen, columns>>

\* What the navigation store's handlers leave alone.
taskStoreVars == <<tasks, isLoading, error, selectedTask, storage, setItemThrows, now,
                   nextId, exported, scen, rateTotal, rateCompleted, rateResult, columns>>

\* ------------------------------------------------------- arrays and heap
Range(s) == {s[i] : i \in 1..Len(s)}
IdsOf(ts) == {ts[i].id : i \in 1..Len(ts)}

\* findIndex, had it fallen back to the last task when none has the id.
FindIndex_OrLast(ts, id) ==
    IF \E i \in 1..Len(ts) : ts[i].id = id
    THEN CHOOSE i \in 1..Len(ts) : ts[i].id = id /\ \A j \in 1..(i - 1) : ts[j].id # id
    ELSE Len(ts)

\* Array.prototype.findIndex(task => task.id === id): 0 stands for -1.
FindIndex(ts, id) ==
    IF \E i \in 1..Len(ts) : ts[i].id = id
    THEN CHOOSE i \in 1..Len(ts) : ts[i].id = id /\ \A j \in 1..(i - 1) : ts[j].id # id
    ELSE 0

\* splice(0, 1): the first task removed, whichever was found.
Splice_First(ts, i) == [j \in 1..(Len(ts) - 1) |-> ts[j + 1]]

\* Array.prototype.splice(i, 1)
Splice(ts, i) == [j \in 1..(Len(ts) - 1) |-> IF j < i THEN ts[j] ELSE ts[j + 1]]

\* Array.prototype.filter(task => task.status === status)
RECURSIVE FilterStatus(_, _)
FilterStatus(ts, status) ==
    IF ts = <<>> THEN <<>>
    ELSE (IF Head(ts).status = status THEN <<Head(ts)>> ELSE <<>>)
         \o FilterStatus(Tail(ts), status)

\* Array.prototype.filter(task => task.status !== 'done')
RECURSIVE FilterNotDone(_)
FilterNotDone(ts) ==
    IF ts = <<>> THEN <<>>
    ELSE (IF Head(ts).status # "done" THEN <<Head(ts)>> ELSE <<>>)
         \o FilterNotDone(Tail(ts))

\* The objects some reference still reaches: the array, the selection, an export.
ExportedObjs == {exported.tasks[i].obj : i \in 1..Len(exported.tasks)}
LiveObjs == {tasks[i].obj : i \in 1..Len(tasks)} \cup {selectedTask.obj} \cup ExportedObjs

\* The i-th object a handler allocates (i = 1, 2, ...): the addresses not in use.
RECURSIVE NthFree(_, _, _)
NthFree(used, from, i) ==
    IF from \in used THEN NthFree(used, from + 1, i)
    ELSE IF i = 1 THEN from ELSE NthFree(used, from + 1, i - 1)
NewObj(i) == NthFree(LiveObjs \cup {0}, 1, i)

\* ------------------------------------------------------------ persistence
\* JSON.stringify of one task: the dates through toJSON, the identity lost.
Serialize(task) ==
    [id |-> task.id, title |-> task.title, status |-> task.status,
     createdAt |-> toJSON(task.createdAt), updatedAt |-> toJSON(task.updatedAt)]

SerializeAll(ts) == [i \in 1..Len(ts) |-> Serialize(ts[i])]

\* A value found where an array of tasks is expected.
Array(items) == [k |-> "array", items |-> items]
NotAnArray == [k |-> "object", items |-> <<>>]
Missing == [k |-> "undefined", items |-> <<>>]

\* What localStorage.getItem('kanban_board_data') holds.
Absent == [k |-> "absent", version |-> 0, tasks |-> Missing, savedAt |-> 0]
Garbage == [k |-> "garbage", version |-> 0, tasks |-> Missing, savedAt |-> 0]
Stored(version, ts, t) == [k |-> "object", version |-> version, tasks |-> ts, savedAt |-> t]

\* dataToSave of saveToStorage, stringified.
Blob(ts, t) == Stored(1, Array(SerializeAll(ts)), t)

\* The mapping without ...task: only the two dates survive.
Rehydrate_WithoutSpread(item, o) ==
    [id |-> NonExistentId, title |-> "", status |-> "",
     createdAt |-> NewDate(item.createdAt), updatedAt |-> NewDate(item.updatedAt),
     obj |-> o]

\* { ...task, createdAt: new Date(task.createdAt), updatedAt: new Date(task.updatedAt) }
Rehydrate(item, o) ==
    [id |-> item.id, title |-> item.title, status |-> item.status,
     createdAt |-> NewDate(item.createdAt), updatedAt |-> NewDate(item.updatedAt),
     obj |-> o]

\* data.tasks.map(...): one new object per item, none at an address in used.
RehydrateAll(items, used) ==
    [i \in 1..Len(items) |-> Rehydrate(items[i], NthFree(used \cup {0}, 1, i))]

\* saveToStorage with an empty catch block.
saveToStorage_Silent(ts, e) ==
    /\ storage' = IF setItemThrows THEN storage ELSE Blob(ts, now)
    /\ error' = e

\* saveToStorage() after a handler left the collection ts and the message e.
saveToStorage(ts, e) ==
    /\ storage' = IF setItemThrows THEN storage ELSE Blob(ts, now)
    /\ error' = IF setItemThrows THEN ErrSave ELSE e

\* ---------------------------------------------------------- derived state
todoTasks == FilterStatus(tasks, "todo")
inProgressTasks == FilterStatus(tasks, "in-progress")
testingTasks == FilterStatus(tasks, "testing")
doneTasks == FilterStatus(tasks, "done")
totalTasks == Len(tasks)
completedTasks == Len(doneTasks)
todoCount == Len(todoTasks)
inProgressCount == Len(inProgressTasks)
testingCount == Len(testingTasks)
doneCount == Len(doneTasks)

\* boardData: each column with the tasks whose status is its id, and all tasks.
boardData ==
    [columns |-> [i \in 1..Len(columns) |->
                    [id |-> columns[i].id, title |-> columns[i].title,
                     color |-> columns[i].color,
                     tasks |-> FilterStatus(tasks, columns[i].id)]],
     tasks |-> tasks]

\* ------------------------------------------------- IEEE 754 double arithmetic
\* Math.round((this.completedTasks / this.totalTasks) * 100) is computed in
\* doubles: a positive double is [e |-> exponent of its leading bit, m |-> its
\* MantissaBits significant bits, leading bit first].
MantissaBits == 53

RECURSIVE Pow2(_)
Pow2(n) == IF n = 0 THEN 1 ELSE 2 * Pow2(n - 1)

\* The least k with c * 2^k >= t.
RECURSIVE Normalize(_, _, _)
Normalize(c, t, k) == IF c >= t THEN k ELSE Normalize(2 * c, t, k + 1)

\* Long division: the next n bits of r / t and the remainder left, as <<bits, r>>.
RECURSIVE DivideBits(_, _, _, _)
DivideBits(r, t, n, bits) ==
    IF n = 0 THEN <<bits, r>>
    ELSE LET b == IF 2 * r >= t THEN 1 ELSE 0
         IN  DivideBits(2 * r - b * t, t, n - 1, Append(bits, b))

\* bits + 1, as <<bits, carry out>>.
RECURSIVE Increment(_, _)
Increment(bits, i) ==
    IF i = 0 THEN <<bits, 1>>
    ELSE IF bits[i] = 0 THEN <<[bits EXCEPT ![i] = 1], 0>>
    ELSE Increment([bits EXCEPT ![i] = 0], i - 1)

\* Round to nearest, ties to even: the double with leading exponent e, the kept
\* bits, and whether what was dropped is above, at or below one half ("up",
\* "tie", "down").
RoundNearestEven(e, kept, dropped) ==
    LET up == dropped = "up" \/ (dropped = "tie" /\ kept[Len(kept)] = 1)
        inc == Increment(kept, Len(kept))
    IN  IF ~up THEN [e |-> e, m |-> kept]
        ELSE IF inc[2] = 0 THEN [e |-> e, m |-> inc[1]]
        ELSE [e |-> e + 1, m |-> <<1>> \o SubSeq(inc[1], 1, Len(kept) - 1)]

\* c / t for integers 1 <= c <= t.
DoubleDivide(c, t) ==
    LET k == Normalize(c, t, 0)
        d == DivideBits(c * Pow2(k) - t, t, MantissaBits - 1, <<1>>)
        r == d[2]
    IN  RoundNearestEven(-k, d[1],
                         IF 2 * r > t THEN "up" ELSE IF 2 * r = t THEN "tie" ELSE "down")

\* The binary digits of n >= 0, leading digit first.
RECURSIVE ToBits(_)
ToBits(n) == IF n = 0 THEN <<>> ELSE ToBits(n \div 2) \o <<n % 2>>

RECURSIVE FromBits(_)
FromBits(bits) ==
    IF bits = <<>> THEN 0 ELSE 2 * FromBits(SubSeq(bits, 1, Len(bits) - 1)) + bits[Len(bits)]

\* The binary digits of bits[1..i] * 100 + carry, leading digit first: schoolbook
\* multiplication from the last digit up.
RECURSIVE TimesHundred(_, _, _)
TimesHundred(bits, i, carry) ==
    IF i = 0 THEN ToBits(carry)
    ELSE LET v == bits[i] * 100 + carry
         IN  IF v % 2 = 1 THEN TimesHundred(bits, i - 1, v \div 2) \o <<1>>
             ELSE TimesHundred(bits, i - 1, v \div 2) \o <<0>>

\* x * 100 for a positive double x.
DoubleTimesHundred(x) ==
    LET all == TimesHundred(x.m, MantissaBits, 0)
        extra == Len(all) - MantissaBits
        kept == SubSeq(all, 1, MantissaBits)
        guard == all[MantissaBits + 1]
        sticky == \E i \in (MantissaBits + 2)..Len(all) : all[i] = 1
    IN  RoundNearestEven(x.e + extra, kept,
                         IF guard = 1 /\ sticky THEN "up"
                         ELSE IF guard = 1 THEN "tie" ELSE "down")

\* Math.round(x) for a positive double x < 2^MantissaBits: floor(x + 0.5).
MathRound(x) ==
    IF x.e < -1 THEN 0
    ELSE FromBits(SubSeq(x.m, 1, x.e + 1)) + x.m[x.e + 2]

\* this.totalTasks > 0 ? Math.round((this.completedTasks / this.totalTasks) * 100) : 0
CompletionRate(completed, total) ==
    IF total > 0
    THEN IF completed = 0 THEN 0
         ELSE MathRound(DoubleTimesHundred(DoubleDivide(completed, total)))
    ELSE 0

completionRate == CompletionRate(completedTasks, totalTasks)

\* ------------------------------------------------------------------ inputs

F1 == [id |-> 91, title |-> "a", status |-> "todo",
       createdAt |-> JString(1), updatedAt |-> JString(1)]
F2 == [id |-> 92, title |-> "b", status |-> "bogus",
       createdAt |-> JUndefined, updatedAt |-> JNull]
F3 == [id |-> 91, title |-> "b", status |-> "done",
       createdAt |-> JString(1), updatedAt |-> JString(1)]
ForeignLists == {l \in {<<>>, <<F1>>, <<F1, F2>>, <<F1, F3>>} : Len(l) <= MaxTasks}

\* What a previous session, another version or the user left in localStorage.
InitialBlobs ==
    {Absent, Garbage, Stored(2, Array(<<F1>>), 1), Stored(1, NotAnArray, 1),
     Stored(1, Array(<<F1, F2>>), 1)}

\* ------------------------------------------------------------------- ghosts
RetVoid == [ok |-> TRUE, n |-> 0, tasks |-> <<>>]
RetBool(b) == [ok |-> b, n |-> 0, tasks |-> <<>>]
RetCount(n) == [ok |-> TRUE, n |-> n, tasks |-> <<>>]
RetTasks(ts) == [ok |-> TRUE, n |-> 0, tasks |-> ts]

\* The two sequences followed step by step: addTask then deleteTask of the id it
\* returned; exportData, then reset or clearAllTasks, then importData of that export.
NoScen == [kind |-> "none", tasks |-> <<>>, id |-> NonExistentId]
ScenAfter(name, id, arg, r) ==
    CASE name = "addTask" -> [kind |-> "added", tasks |-> tasks, id |-> r.tasks[1].id]
      [] name = "deleteTask" /\ scen.kind = "added" /\ id = scen.id ->
            [scen EXCEPT !.kind = "undone"]
      [] name = "exportData" -> [kind |-> "exported", tasks |-> tasks, id |-> NonExistentId]
      [] name \in {"reset", "clearAllTasks"} /\ scen.kind = "exported" ->
            [scen EXCEPT !.kind = "emptied"]
      [] name = "importData" /\ arg = "export" /\ scen.kind = "emptied" ->
            [scen EXCEPT !.kind = "reimported"]
      [] OTHER -> NoScen

Budget == nOps < MaxOps

Called(name, id, arg, r) ==
    /\ nOps' = nOps + 1
    /\ lastOp' = [name |-> name, id |-> id, arg |-> arg]
    /\ ret' = r
    /\ scen' = ScenAfter(name, id, arg, r)
    /\ UNCHANGED aside

\* An exported board holds the live array (boardData.tasks is this.tasks): it
\* sees what a handler does to that array in place, until the store replaces it.
NoExport == [has |-> FALSE, live |-> FALSE, version |-> 0, tasks |-> <<>>]
ExportAfterInPlace(ts) == IF exported.live THEN [exported EXCEPT !.tasks = ts] ELSE exported
ExportAfterReassign == [exported EXCEPT !.live = FALSE]

\* ------------------------------------------------------------------- Init
\* The four columns as constructed, in order; their tasks are derived (boardData).
DefaultColumns ==
    <<[id |-> "todo", title |-> "To Do", color |-> "neon-blue"],
      [id |-> "in-progress", title |-> "In Progress", color |-> "neon-purple"],
      [id |-> "testing", title |-> "Testing", color |-> "neon-green"],
      [id |-> "done", title |-> "Done", color |-> "neon-cyan"]>>

StoreInit ==
    /\ columns = DefaultColumns
    /\ tasks = <<>>
    /\ isLoading = FALSE
    /\ error = NoError
    /\ selectedTask = NoTask
    /\ storage \in InitialBlobs
    /\ setItemThrows = FALSE
    /\ now = 1
    /\ nextId = 0
    /\ exported = NoExport
    /\ lastOp = [name |-> "init", id |-> NonExistentId, arg |-> ""]
    /\ ret = RetVoid
    /\ scen = NoScen
    /\ nOps = 0

\* The navigation store as constructed: the kanban entry alone, active.
KanbanItem == [id |-> "kanban", active |-> TRUE, disabled |-> FALSE]
NoNavScen == [kind |-> "none", items |-> <<>>, activeItem |-> "", n |-> 0, count |-> 0]
NavigationInit ==
    /\ navItems = <<KanbanItem>>
    /\ activeItem = "kanban"
    /\ sidebarCollapsed = FALSE
    /\ navScen = NoNavScen

Init ==
    /\ StoreInit
    /\ NavigationInit
    /\ rateTotal = 0
    /\ rateCompleted = 0
    /\ rateResult = 0

\* ------------------------------------------------------------- operations
\* addTask(task)
addTask(task) ==
    /\ Budget
    /\ LET newTask == [id |-> nextId + 1, title |-> task.title, status |-> task.status,
                       createdAt |-> Date(now), updatedAt |-> Date(now), obj |-> NewObj(1)]
           ts == Append(tasks, newTask)
       IN  /\ Len(tasks) < MaxTasks
           /\ nextId < MaxIds
           /\ tasks' = ts
           /\ nextId' = nextId + 1
           /\ saveToStorage(ts, error)
           /\ exported' = ExportAfterInPlace(ts)
           /\ Called("addTask", NonExistentId, "", RetTasks(<<newTask>>))
           /\ UNCHANGED <<isLoading, selectedTask, setItemThrows, now>>

\* addTasks(tasks)
addTasks(list) ==
    /\ Budget
    /\ LET newTasks == [i \in 1..Len(list) |->
                           [id |-> nextId + i, title |-> list[i].title,
                            status |-> list[i].status, createdAt |-> Date(now),
                            updatedAt |-> Date(now), obj |-> NewObj(i)]]
           ts == tasks \o newTasks
       IN  /\ Len(tasks) + Len(list) <= MaxTasks
           /\ nextId + Len(list) <= MaxIds
           /\ tasks' = ts
           /\ nextId' = nextId + Len(list)
           /\ saveToStorage(ts, error)
           /\ exported' = ExportAfterInPlace(ts)
           /\ Called("addTasks", NonExistentId, "", RetTasks(newTasks))
           /\ UNCHANGED <<isLoading, selectedTask, setItemThrows, now>>

\* { ...this.tasks[taskIndex], ...updates, updatedAt: new Date() }: a new object o.
MergeUpdate(task, updates, t, o) ==
    [f \in DOMAIN task |->
        CASE f = "updatedAt" -> Date(t)
          [] f = "obj" -> o
          [] f \in DOMAIN updates -> updates[f]
          [] OTHER -> task[f]]

\* updateTask(taskId, updates)
updateTask(taskId, updates) ==
    /\ Budget
    /\ LET taskIndex == FindIndex(tasks, taskId)
           ts == [tasks EXCEPT ![taskIndex] = MergeUpdate(tasks[taskIndex], updates, now, NewObj(1))]
       IN  IF taskIndex = 0
           THEN /\ Called("updateTask", taskId, "", RetBool(FALSE))
                /\ UNCHANGED <<tasks, isLoading, error, selectedTask, storage,
                               setItemThrows, now, nextId, exported>>
           ELSE /\ tasks' = ts
                /\ saveToStorage(ts, error)
                /\ exported' = ExportAfterInPlace(ts)
                /\ Called("updateTask", taskId, "", RetBool(TRUE))
                /\ UNCHANGED <<isLoading, selectedTask, setItemThrows, now, nextId>>

\* The selection cleared whichever task is deleted.
SelectionAfterDelete_Cleared(taskId) == NoTask

\* if (this.selectedTask?.id === taskId) this.selectedTask = null
SelectionAfterDelete(taskId) ==
    IF selectedTask # NoTask /\ selectedTask.id = taskId THEN NoTask ELSE selectedTask

\* deleteTask written with a filter: every task with that id goes.
deleteTask_RemovesAll(taskId) ==
    /\ Budget
    /\ LET taskIndex == FindIndex(tasks, taskId)
           ts == SelectSeq(tasks, LAMBDA task : task.id # taskId)
       IN  IF taskIndex = 0
           THEN /\ Called("deleteTask", taskId, "", RetBool(FALSE))
                /\ UNCHANGED <<tasks, isLoading, error, selectedTask, storage,
                               setItemThrows, now, nextId, exported>>
           ELSE /\ selectedTask' = SelectionAfterDelete(taskId)
                /\ tasks' = ts
                /\ saveToStorage(ts, error)
                /\ exported' = ExportAfterInPlace(ts)
                /\ Called("deleteTask", taskId, "", RetBool(TRUE))
                /\ UNCHANGED <<isLoading, setItemThrows, now, nextId>>

\* deleteTask(taskId)
deleteTask(taskId) ==
    /\ Budget
    /\ LET taskIndex == FindIndex(tasks, taskId)
           ts == Splice(tasks, taskIndex)
       IN  IF taskIndex = 0
           THEN /\ Called("deleteTask", taskId, "", RetBool(FALSE))
                /\ UNCHANGED <<tasks, isLoading, error, selectedTask, storage,
                               setItemThrows, now, nextId, exported>>
           ELSE /\ selectedTask' = SelectionAfterDelete(taskId)
                /\ tasks' = ts
                /\ saveToStorage(ts, error)
                /\ exported' = ExportAfterInPlace(ts)
                /\ Called("deleteTask", taskId, "", RetBool(TRUE))
                /\ UNCHANGED <<isLoading, setItemThrows, now, nextId>>

\* moveTask without task.updatedAt = new Date().
Moved_KeepsUpdatedAt(rec, o, newStatus, t) ==
    IF rec.obj = o THEN [rec EXCEPT !.status = newStatus] ELSE rec

\* task.status = newStatus; task.updatedAt = new Date(), on the object o, seen
\* through every reference to it.
Moved(rec, o, newStatus, t) ==
    IF rec.obj = o THEN [rec EXCEPT !.status = newStatus, !.updatedAt = Date(t)] ELSE rec

\* moveTask(taskId, newStatus)
moveTask(taskId, newStatus) ==
    /\ Budget
    /\ LET taskIndex == FindIndex(tasks, taskId)
           o == tasks[taskIndex].obj
           ts == [i \in 1..Len(tasks) |-> Moved(tasks[i], o, newStatus, now)]
       IN  IF taskIndex = 0
           THEN /\ Called("moveTask", taskId, newStatus, RetBool(FALSE))
                /\ UNCHANGED <<tasks, isLoading, error, selectedTask, storage,
                               setItemThrows, now, nextId, exported>>
           ELSE /\ tasks' = ts
                /\ selectedTask' = IF selectedTask = NoTask THEN NoTask
                                   ELSE Moved(selectedTask, o, newStatus, now)
                /\ exported' = [exported EXCEPT !.tasks =
                                   [i \in 1..Len(exported.tasks) |->
                                       Moved(exported.tasks[i], o, newStatus, now)]]
                /\ saveToStorage(ts, error)
                /\ Called("moveTask", taskId, newStatus, RetBool(TRUE))
                /\ UNCHANGED <<isLoading, setItemThrows, now, nextId>>

\* selectTask(task): the caller passes a task of the collection, or null.
selectTask(task) ==
    /\ Budget
    /\ /\ selectedTask' = task
       /\ Called("selectTask", NonExistentId, "", RetVoid)
       /\ UNCHANGED <<tasks, isLoading, error, storage, setItemThrows, now, nextId, exported>>

\* setLoading(loading)
setLoading(loading) ==
    /\ Budget
    /\ /\ isLoading' = loading
       /\ Called("setLoading", NonExistentId, "", RetVoid)
       /\ UNCHANGED <<tasks, error, selectedTask, storage, setItemThrows, now, nextId,
                      exported>>

\* setError(error)
setError(e) ==
    /\ Budget
    /\ /\ error' = e
       /\ Called("setError", NonExistentId, "", RetVoid)
       /\ UNCHANGED <<tasks, isLoading, selectedTask, storage, setItemThrows, now, nextId,
                      exported>>

\* clearError()
clearError ==
    /\ Budget
    /\ /\ error' = NoError
       /\ Called("clearError", NonExistentId, "", RetVoid)
       /\ UNCHANGED <<tasks, isLoading, selectedTask, storage, setItemThrows, now, nextId,
                      exported>>

\* clearCompletedTasks()
clearCompletedTasks ==
    /\ Budget
    /\ LET ts == FilterNotDone(tasks)
       IN  /\ tasks' = ts
           /\ saveToStorage(ts, error)
           /\ exported' = ExportAfterReassign
           /\ Called("clearCompletedTasks", NonExistentId, "", RetCount(Len(doneTasks)))
           /\ UNCHANGED <<isLoading, selectedTask, setItemThrows, now, nextId>>

\* clearAllTasks()
clearAllTasks ==
    /\ Budget
    /\ /\ tasks' = <<>>
       /\ selectedTask' = NoTask
       /\ saveToStorage(<<>>, error)
       /\ exported' = ExportAfterReassign
       /\ Called("clearAllTasks", NonExistentId, "", RetCount(Len(tasks)))
       /\ UNCHANGED <<isLoading, setItemThrows, now, nextId>>

\* The try block, had it thrown on an object that fails the check.
LoadOutcome_Strict(readOk) ==
    CASE ~readOk -> "throw"
      [] storage.k = "absent" -> "skip"
      [] storage.k = "garbage" -> "throw"
      [] storage.version = 1 /\ storage.tasks.k = "array" -> "load"
      [] OTHER -> "throw"

\* The outcome of the try block of loadFromStorage: "skip" when nothing is
\* stored or the object fails the check, "throw" when getItem or JSON.parse throws.
LoadOutcome(readOk) ==
    CASE ~readOk -> "throw"
      [] storage.k = "absent" -> "skip"
      [] storage.k = "garbage" -> "throw"
      [] storage.version = 1 /\ storage.tasks.k = "array" -> "load"
      [] OTHER -> "skip"

\* loadFromStorage()
loadFromStorage(readOk) ==
    /\ Budget
    /\ LET outcome == LoadOutcome(readOk)
       IN  /\ tasks' = IF outcome = "load"
                       THEN RehydrateAll(storage.tasks.items, {selectedTask.obj} \cup ExportedObjs)
                       ELSE tasks
           /\ error' = IF outcome = "throw" THEN ErrLoad ELSE error
           /\ exported' = IF outcome = "load" THEN ExportAfterReassign ELSE exported
           /\ Called("loadFromStorage", NonExistentId, outcome, RetVoid)
           /\ UNCHANGED <<isLoading, selectedTask, storage, setItemThrows, now, nextId>>

\* LayoutErrorRecovery.handleKanbanError(error): clearError(), then
\* loadFromStorage(), which catches what getItem and JSON.parse throw and
\* reports it through the error message; nothing reaches the catch block of
\* handleKanbanError, so its reset() does not run.
handleKanbanError(readOk) ==
    /\ Budget
    /\ LET outcome == LoadOutcome(readOk)
       IN  /\ tasks' = IF outcome = "load"
                       THEN RehydrateAll(storage.tasks.items, {selectedTask.obj} \cup ExportedObjs)
                       ELSE tasks
           /\ error' = IF outcome = "throw" THEN ErrLoad ELSE NoError
           /\ exported' = IF outcome = "load" THEN ExportAfterReassign ELSE exported
           /\ Called("handleKanbanError", NonExistentId, outcome, RetVoid)
           /\ UNCHANGED <<isLoading, selectedTask, storage, setItemThrows, now, nextId>>

\* this.columns.find((col) => col.id === status): its index, 0 for undefined.
FindColumn(status) ==
    IF \E i \in 1..Len(columns) : columns[i].id = status
    THEN CHOOSE i \in 1..Len(columns) :
             columns[i].id = status /\ \A j \in 1..(i - 1) : columns[j].id # status
    ELSE 0

\* updateColumnConfig(status, updates): Object.assign(column, updates)
updateColumnConfig(status, updates) ==
    /\ Budget
    /\ LET index == FindColumn(status)
       IN  /\ columns' = IF index = 0 THEN columns
                         ELSE [columns EXCEPT ![index] =
                                  [f \in DOMAIN columns[index] |->
                                      IF f \in DOMAIN updates THEN updates[f]
                                      ELSE columns[index][f]]]
           /\ nOps' = nOps + 1
           /\ lastOp' = [name |-> "updateColumnConfig", id |-> NonExistentId, arg |-> status]
           /\ ret' = RetBool(index # 0)
           /\ scen' = ScenAfter("updateColumnConfig", NonExistentId, status, RetBool(index # 0))
           /\ UNCHANGED <<tasks, isLoading, error, selectedTask, storage, setItemThrows, now,
                          nextId, exported, rateTotal, rateCompleted, rateResult, navItems,
                          activeItem, sidebarCollapsed, navScen>>

\* exportData(): the part of the returned object importData reads.
exportData ==
    /\ exported' = [has |-> TRUE, live |-> TRUE, version |-> 1, tasks |-> tasks]
    /\ lastOp' = [name |-> "exportData", id |-> NonExistentId, arg |-> ""]
    /\ ret' = RetVoid
    /\ scen' = ScenAfter("exportData", NonExistentId, "", RetVoid)
    /\ UNCHANGED <<tasks, isLoading, error, selectedTask, storage, setItemThrows, now,
                   nextId, nOps>>
    /\ UNCHANGED aside

\* The test without data.version === 1.
ImportAccepts_AnyVersion(data) == data.tasks.k # "undefined"

\* data.version === 1 && data.board?.tasks
ImportAccepts(data) == data.version = 1 /\ data.tasks.k # "undefined"

\* importData(data)
importData(data) ==
    /\ Budget
    /\ LET importedTasks == RehydrateAll(data.tasks.items, ExportedObjs)
       IN  IF ImportAccepts(data)
           THEN IF data.tasks.k = "array"
                THEN /\ tasks' = importedTasks
                     /\ selectedTask' = NoTask
                     /\ saveToStorage(importedTasks, NoError)
                     /\ exported' = ExportAfterReassign
                     /\ Called("importData", NonExistentId, data.src, RetBool(TRUE))
                     /\ UNCHANGED <<isLoading, setItemThrows, now, nextId>>
                ELSE \* data.board.tasks.map is not a function: thrown after the clearing
                     /\ tasks' = <<>>
                     /\ selectedTask' = NoTask
                     /\ error' = ErrImport
                     /\ exported' = ExportAfterReassign
                     /\ Called("importData", NonExistentId, data.src, RetBool(FALSE))
                     /\ UNCHANGED <<isLoading, storage, setItemThrows, now, nextId>>
           ELSE /\ error' = ErrImport
                /\ Called("importData", NonExistentId, data.src, RetBool(FALSE))
                /\ UNCHANGED <<tasks, isLoading, selectedTask, storage, setItemThrows, now,
                               nextId, exported>>

\* reset() without this.isLoading = false.
reset_KeepsLoading ==
    /\ Budget
    /\ /\ tasks' = <<>>
       /\ selectedTask' = NoTask
       /\ saveToStorage(<<>>, NoError)
       /\ exported' = ExportAfterReassign
       /\ Called("reset", NonExistentId, "", RetVoid)
       /\ UNCHANGED <<isLoading, setItemThrows, now, nextId>>

\* reset()
reset ==
    /\ Budget
    /\ /\ tasks' = <<>>
       /\ isLoading' = FALSE
       /\ selectedTask' = NoTask
       /\ saveToStorage(<<>>, NoError)
       /\ exported' = ExportAfterReassign
       /\ Called("reset", NonExistentId, "", RetVoid)
       /\ UNCHANGED <<setItemThrows, now, nextId>>

\* The clock advances between two handlers.
Tick ==
    /\ Budget
    /\ /\ now < MaxTime
       /\ now' = now + 1
       /\ nOps' = nOps + 1
       /\ UNCHANGED <<tasks, isLoading, error, selectedTask, storage, setItemThrows,
                      nextId, exported, lastOp, ret, scen>>
       /\ UNCHANGED aside

\* localStorage starts or stops refusing writes.
storageQuota(throws) ==
    /\ Budget
    /\ /\ setItemThrows' = throws
       /\ nOps' = nOps + 1
       /\ UNCHANGED <<tasks, isLoading, error, selectedTask, storage, now, nextId, exported,
                      lastOp, ret, scen>>
       /\ UNCHANGED aside

\* ------------------------------------------------------- the callers' inputs
TodoA == [title |-> "a", status |-> "todo"]
DoneB == [title |-> "b", status |-> "done"]
TaskLists == {<<>>, <<TodoA>>, <<TodoA, DoneB>>, <<TodoA, TodoA, DoneB>>}
\* The ids a caller may hold: of the tasks in the collection, of tasks since
\* deleted, and one that never existed.
TargetIds == IdsOf(tasks) \cup (1..nextId) \cup {NonExistentId}
UpdateInputs ==
    {[title |-> "b"], [status |-> "done"], [createdAt |-> Date(0)]}
        \cup {[id |-> x] : x \in IdsOf(tasks) \cup {92}}
ColumnTargets == {"todo", "invalid"}
ColumnUpdates == {[title |-> "Updated Todo", color |-> "custom-blue"]}
ImportPayloads ==
    {[src |-> "version2", version |-> 2, tasks |-> t] :
        t \in {Array(<<F1>>), NotAnArray, Missing}}
        \cup {[src |-> "noTasks", version |-> 1, tasks |-> Missing],
              [src |-> "notArray", version |-> 1, tasks |-> NotAnArray]}
        \cup {[src |-> "foreign", version |-> 1, tasks |-> Array(l)] : l \in ForeignLists}
        \cup (IF exported.has
              THEN {[src |-> "export", version |-> exported.version,
                     tasks |-> Array(exported.tasks)]}
              ELSE {})

Next ==
    \/ \E task \in {TodoA, DoneB} : addTask(task)
    \/ \E list \in TaskLists : addTasks(list)
    \/ \E id \in TargetIds, u \in UpdateInputs : updateTask(id, u)
    \/ \E id \in TargetIds : deleteTask(id)
    \/ \E id \in TargetIds, st \in TaskStatus : moveTask(id, st)
    \/ \E task \in Range(tasks) \cup {NoTask} : selectTask(task)
    \/ \E b \in BOOLEAN : setLoading(b)
    \/ setError("Test error")
    \/ clearError
    \/ clearCompletedTasks
    \/ clearAllTasks
    \/ \E r \in BOOLEAN : loadFromStorage(r)
    \/ exportData
    \/ \E data \in ImportPayloads : importData(data)
    \/ reset
    \/ storageQuota(~setItemThrows)
    \/ Tick

Spec == Init /\ [][Next]_vars

\* ------------------------------------------- the board and its error recovery
\* The store as the board drives it: the collection is built (addTask,
\* addTasks, importData, loadFromStorage), single tasks are selected, updated,
\* moved and deleted, columns are configured, and the layout's error recovery
\* runs handleKanbanError; writes to localStorage may start to fail.
BoardNext ==
    \/ \E task \in {TodoA, DoneB} : addTask(task)
    \/ \E list \in TaskLists : addTasks(list)
    \/ \E data \in ImportPayloads : importData(data)
    \/ \E r \in BOOLEAN : loadFromStorage(r)
    \/ \E task \in Range(tasks) \cup {NoTask} : selectTask(task)
    \/ \E id \in TargetIds, u \in UpdateInputs : updateTask(id, u)
    \/ \E id \in TargetIds, st \in TaskStatus : moveTask(id, st)
    \/ \E id \in TargetIds : deleteTask(id)
    \/ \E status \in ColumnTargets, u \in ColumnUpdates : updateColumnConfig(status, u)
    \/ \E r \in BOOLEAN : handleKanbanError(r)
    \/ storageQuota(~setItemThrows)

BoardSpec == Init /\ [][BoardNext]_vars

\* ----------------------------------------------- the completion rate alone
\* A collection of rateTotal tasks, rateCompleted of them done, whose
\* completionRate is then read.
RateInit ==
    /\ StoreInit
    /\ NavigationInit
    /\ storage = Absent
    /\ rateTotal \in 0..MaxTotal
    /\ rateCompleted \in 0..rateTotal
    /\ rateResult = -1

readCompletionRate ==
    /\ rateResult = -1
    /\ rateResult' = CompletionRate(rateCompleted, rateTotal)
    /\ UNCHANGED <<tasks, isLoading, error, selectedTask, storage, setItemThrows, now,
                   nextId, exported, lastOp, ret, scen, nOps, rateTotal, rateCompleted,
                   navItems, activeItem, sidebarCollapsed, navScen, columns>>

RateSpec == RateInit /\ [][readCompletionRate]_vars

\* ------------------------------------------------------ the navigation store
\* src/lib/stores/navigation.svelte.ts.  An entry is [id, active, disabled];
\* label and icon are carried along and read by no handler.
NavBudget == nOps < MaxNavOps

\* Runs of navigateNext and navigatePrevious followed step by step from a state
\* whose active entry is enabled: "next" counts navigateNext calls in a row,
\* "nextprev" and "prevnext" are one step and the opposite step; items,
\* activeItem and n (the number of enabled entries) are those of the start.
NavScenAfter(name) ==
    LET enabled == \E i \in 1..Len(navItems) :
                       navItems[i].id = activeItem /\ ~navItems[i].disabled
        start == [kind |-> "none", items |-> navItems, activeItem |-> activeItem,
                  n |-> Cardinality({i \in 1..Len(navItems) : ~navItems[i].disabled}),
                  count |-> 1]
    IN  CASE name = "navigateNext" /\ navScen.kind = "prev" ->
                [navScen EXCEPT !.kind = "prevnext"]
          [] name = "navigateNext" /\ navScen.kind = "next" ->
                [navScen EXCEPT !.count = @ + 1]
          [] name = "navigateNext" /\ enabled -> [start EXCEPT !.kind = "next"]
          [] name = "navigatePrevious" /\ navScen.kind = "next" /\ navScen.count = 1 ->
                [navScen EXCEPT !.kind = "nextprev"]
          [] name = "navigatePrevious" /\ enabled -> [start EXCEPT !.kind = "prev"]
          [] OTHER -> NoNavScen

NavCalled(name, itemId, r) ==
    /\ nOps' = nOps + 1
    /\ lastOp' = [name |-> name, id |-> NonExistentId, arg |-> itemId]
    /\ ret' = r
    /\ navScen' = NavScenAfter(name)
    /\ UNCHANGED taskStoreVars

\* this.items.findIndex((item) => item.id === itemId): 0 stands for -1.
FindItem(its, itemId) ==
    IF \E i \in 1..Len(its) : its[i].id = itemId
    THEN CHOOSE i \in 1..Len(its) : its[i].id = itemId /\ \A j \in 1..(i - 1) : its[j].id # itemId
    ELSE 0

\* setActiveItem that activates a disabled entry too.
SetActive_IgnoresDisabled(its, active, itemId) ==
    IF FindItem(its, itemId) = 0
    THEN [ok |-> FALSE, items |-> its, activeItem |-> active]
    ELSE [ok |-> TRUE,
          items |-> [j \in 1..Len(its) |-> [its[j] EXCEPT !.active = (its[j].id = itemId)]],
          activeItem |-> itemId]

\* The body of setActiveItem(itemId) on the entries its with the active id
\* active: what it returns and what it leaves.
SetActive(its, active, itemId) ==
    LET i == FindItem(its, itemId)
    IN  IF i = 0 \/ its[i].disabled
        THEN [ok |-> FALSE, items |-> its, activeItem |-> active]
        ELSE [ok |-> TRUE,
              items |-> [j \in 1..Len(its) |-> [its[j] EXCEPT !.active = (its[j].id = itemId)]],
              activeItem |-> itemId]

\* setActiveItem(itemId)
setActiveItem(itemId) ==
    /\ NavBudget
    /\ LET r == SetActive(navItems, activeItem, itemId)
       IN  /\ navItems' = r.items
           /\ activeItem' = r.activeItem
           /\ NavCalled("setActiveItem", itemId, RetBool(r.ok))
           /\ UNCHANGED sidebarCollapsed

\* toggleSidebar()
toggleSidebar ==
    /\ NavBudget
    /\ /\ sidebarCollapsed' = ~sidebarCollapsed
       /\ NavCalled("toggleSidebar", "", RetVoid)
       /\ UNCHANGED <<navItems, activeItem>>

\* setSidebarCollapsed(collapsed)
setSidebarCollapsed(collapsed) ==
    /\ NavBudget
    /\ /\ sidebarCollapsed' = collapsed
       /\ NavCalled("setSidebarCollapsed", "", RetVoid)
       /\ UNCHANGED <<navItems, activeItem>>

\* The uniqueness test finding nothing.
SomeHasId_Never(its, itemId) == FALSE

\* this.items.some((existing) => existing.id === item.id)
SomeHasId(its, itemId) == \E i \in 1..Len(its) : its[i].id = itemId

\* addNavigationItem(item)
addNavigationItem(item) ==
    /\ NavBudget
    /\ IF SomeHasId(navItems, item.id)
       THEN /\ NavCalled("addNavigationItem", item.id, RetBool(FALSE))
            /\ UNCHANGED <<navItems, activeItem, sidebarCollapsed>>
       ELSE /\ navItems' = Append(navItems, [id |-> item.id, active |-> FALSE,
                                       disabled |-> item.disabled])
            /\ NavCalled("addNavigationItem", item.id, RetBool(TRUE))
            /\ UNCHANGED <<activeItem, sidebarCollapsed>>

\* No entry is protected.
IsCore_Never(itemId) == FALSE

\* itemId === 'kanban'
IsCore(itemId) == itemId = "kanban"

\* removeNavigationItem(itemId)
removeNavigationItem(itemId) ==
    /\ NavBudget
    /\ LET index == FindItem(navItems, itemId)
           r == IF activeItem = itemId
                THEN SetActive(navItems, activeItem, "kanban")
                ELSE [ok |-> FALSE, items |-> navItems, activeItem |-> activeItem]
       IN  IF IsCore(itemId) \/ index = 0
           THEN /\ NavCalled("removeNavigationItem", itemId, RetBool(FALSE))
                /\ UNCHANGED <<navItems, activeItem, sidebarCollapsed>>
           ELSE /\ navItems' = Splice(r.items, index)
                /\ activeItem' = r.activeItem
                /\ NavCalled("removeNavigationItem", itemId, RetBool(TRUE))
                /\ UNCHANGED sidebarCollapsed

\* Object.assign(item, updates)
Assign(item, updates) ==
    [f \in DOMAIN item |-> IF f \in DOMAIN updates THEN updates[f] ELSE item[f]]

\* updateNavigationItem(itemId, updates)
updateNavigationItem(itemId, updates) ==
    /\ NavBudget
    /\ LET i == FindItem(navItems, itemId)
           assigned == [navItems EXCEPT ![i] = Assign(navItems[i], updates)]
           r == IF "active" \in DOMAIN updates /\ updates.active = TRUE
                THEN SetActive(assigned, activeItem, itemId)
                ELSE [ok |-> FALSE, items |-> assigned, activeItem |-> activeItem]
       IN  IF i = 0
           THEN /\ NavCalled("updateNavigationItem", itemId, RetBool(FALSE))
                /\ UNCHANGED <<navItems, activeItem, sidebarCollapsed>>
           ELSE /\ navItems' = r.items
                /\ activeItem' = r.activeItem
                /\ NavCalled("updateNavigationItem", itemId, RetBool(TRUE))
                /\ UNCHANGED sidebarCollapsed

\* enabledItems without the filter.
FilterEnabled_All(its) == its

\* this.items.filter((item) => !item.disabled)
RECURSIVE FilterEnabled(_)
FilterEnabled(its) ==
    IF its = <<>> THEN <<>>
    ELSE (IF ~Head(its).disabled THEN <<Head(its)>> ELSE <<>>) \o FilterEnabled(Tail(its))

enabledItems == FilterEnabled(navItems)

\* getNextItem() that stops at the last enabled entry instead of wrapping.
getNextItem_NoWrap ==
    LET currentIndex == FindItem(enabledItems, activeItem)
    IN  IF enabledItems = <<>> THEN ""
        ELSE IF currentIndex = 0 THEN enabledItems[1].id
        ELSE IF currentIndex = Len(enabledItems) THEN enabledItems[currentIndex].id
        ELSE enabledItems[currentIndex + 1].id

\* getNextItem(): the id of the entry, "" for null.
getNextItem ==
    LET currentIndex == FindItem(enabledItems, activeItem)
    IN  IF currentIndex = 0 \/ currentIndex = Len(enabledItems)
        THEN IF enabledItems = <<>> THEN "" ELSE enabledItems[1].id
        ELSE enabledItems[currentIndex + 1].id

\* getPreviousItem(): the id of the entry, "" for null.
getPreviousItem ==
    LET currentIndex == FindItem(enabledItems, activeItem)
    IN  IF currentIndex = 0 \/ currentIndex = 1
        THEN IF enabledItems = <<>> THEN "" ELSE enabledItems[Len(enabledItems)].id
        ELSE enabledItems[currentIndex - 1].id

\* if (item) this.setActiveItem(item.id), for the item navigateNext or
\* navigatePrevious found.
Navigate(name, itemId) ==
    LET r == IF itemId = ""
             THEN [ok |-> FALSE, items |-> navItems, activeItem |-> activeItem]
             ELSE SetActive(navItems, activeItem, itemId)
    IN  /\ navItems' = r.items
        /\ activeItem' = r.activeItem
        /\ NavCalled(name, itemId, RetVoid)
        /\ UNCHANGED sidebarCollapsed

\* navigateNext()
navigateNext ==
    /\ NavBudget
    /\ Navigate("navigateNext", getNextItem)

\* navigatePrevious()
navigatePrevious ==
    /\ NavBudget
    /\ Navigate("navigatePrevious", getPreviousItem)

\* NavigationStore.reset()
navigationReset ==
    /\ NavBudget
    /\ /\ activeItem' = "kanban"
       /\ sidebarCollapsed' = FALSE
       /\ navItems' = <<KanbanItem>>
       /\ NavCalled("reset", "", RetVoid)

\* handleSidebarError that ignores what setActiveItem('kanban') returns.
handleSidebarError_NoReset ==
    /\ NavBudget
    /\ LET r == SetActive(navItems, activeItem, "kanban")
       IN  /\ sidebarCollapsed' = FALSE
           /\ navItems' = r.items
           /\ activeItem' = r.activeItem
           /\ NavCalled("handleSidebarError", IF r.ok THEN "set" ELSE "reset", RetVoid)

\* LayoutErrorRecovery.handleSidebarError(error): setSidebarCollapsed(false),
\* then setActiveItem('kanban') and, if that returns false, reset().  Neither
\* store method throws, so the catch block is not entered.
handleSidebarError ==
    /\ NavBudget
    /\ LET r == SetActive(navItems, activeItem, "kanban")
       IN  /\ sidebarCollapsed' = FALSE
           /\ navItems' = IF r.ok THEN r.items ELSE <<KanbanItem>>
           /\ activeItem' = IF r.ok THEN r.activeItem ELSE "kanban"
           /\ NavCalled("handleSidebarError", IF r.ok THEN "set" ELSE "reset", RetVoid)

\* The callers' inputs.
NavIds == {"kanban", "projects", "settings"}
NavTargets == NavIds \cup {"non-existent"}
NavUpdates ==
    {[active |-> TRUE], [active |-> FALSE], [disabled |-> TRUE], [disabled |-> FALSE]}

NavInit ==
    /\ StoreInit
    /\ storage = Absent
    /\ NavigationInit
    /\ rateTotal = 0
    /\ rateCompleted = 0
    /\ rateResult = 0

NavNext ==
    \/ \E itemId \in NavTargets : setActiveItem(itemId)
    \/ toggleSidebar
    \/ \E collapsed \in BOOLEAN : setSidebarCollapsed(collapsed)
    \/ \E itemId \in NavIds, d \in BOOLEAN : addNavigationItem([id |-> itemId, disabled |-> d])
    \/ \E itemId \in NavTargets : removeNavigationItem(itemId)
    \/ \E itemId \in NavTargets, u \in NavUpdates : updateNavigationItem(itemId, u)
    \/ navigateNext
    \/ navigatePrevious
    \/ navigationReset
    \/ handleSidebarError

NavSpec == NavInit /\ [][NavNext]_vars

\* ------------------------------------------------------------------ claims
\* A payload importData is documented to accept: version 1 with a task array.
WellFormed(data) == data.version = 1 /\ data.tasks.k = "array"

\* C1: importData of any payload that is not (version 1 with board.tasks an
\* array), a version-1 payload with a non-array board.tasks included, returns
\* false, sets the error to 'Failed to import data' and leaves the task
\* collection and the selected task as they were.
C1_ImportRejectsWithoutTouching ==
    [][\A data \in ImportPayloads :
          ~WellFormed(data) /\ importData(data)
              => /\ ret'.ok = FALSE
                 /\ error' = ErrImport
                 /\ tasks' = tasks
                 /\ selectedTask' = selectedTask]_vars

\* C2: importData of a payload whose version is not 1 returns false, sets the
\* error to 'Failed to import data' and leaves the task list as it was.
C2_ImportRejectsOtherVersions ==
    [][\A data \in ImportPayloads :
          data.version # 1 /\ importData(data)
              => /\ ret'.ok = FALSE
                 /\ error' = ErrImport
                 /\ tasks' = tasks]_vars

C2_Witness ==
    /\ lastOp.name = "importData"
    /\ lastOp.arg = "version2"
    /\ ret.ok = FALSE
    /\ error = ErrImport
    /\ tasks # <<>>

\* C3: exportData, then reset or clearAllTasks, then importData of that export
\* returns true and yields the exported tasks in the same order with the same
\* id, title and status.
C3_ExportImportRoundTrip ==
    scen.kind = "reimported"
        => /\ ret.ok
           /\ Len(tasks) = Len(scen.tasks)
           /\ \A i \in 1..Len(tasks) :
                 /\ tasks[i].id = scen.tasks[i].id
                 /\ tasks[i].title = scen.tasks[i].title
                 /\ tasks[i].status = scen.tasks[i].status

C3_Witness ==
    /\ scen.kind = "reimported"
    /\ Len(tasks) = 2
    /\ tasks[1].status # tasks[2].status

\* C4: updateTask, deleteTask and moveTask with an id no task has return false
\* and leave the task collection, the selected task, the error message and the
\* stored blob unchanged.
C4_NotFoundIsNoOp ==
    [][\A id \in TargetIds :
          /\ id \notin IdsOf(tasks)
          /\ lastOp'.id = id
          /\ \/ \E u \in UpdateInputs : updateTask(id, u)
             \/ deleteTask(id)
             \/ \E st \in TaskStatus : moveTask(id, st)
          => /\ ret'.ok = FALSE
             /\ tasks' = tasks
             /\ selectedTask' = selectedTask
             /\ error' = error
             /\ storage' = storage]_vars

C4_Witness ==
    /\ lastOp.name \in {"updateTask", "deleteTask", "moveTask"}
    /\ lastOp.id \notin IdsOf(tasks)
    /\ ret.ok = FALSE
    /\ tasks # <<>>
    /\ selectedTask # NoTask

\* C5: addTask followed at once by deleteTask of the id of the task it returned
\* returns true and leaves the collection as it was before addTask: the same
\* tasks in the same order.
C5_AddDeleteRoundTrip ==
    scen.kind = "undone" => ret.ok /\ tasks = scen.tasks

C5_Witness ==
    /\ scen.kind = "undone"
    /\ lastOp.name = "deleteTask"
    /\ tasks # <<>>

\* The counts after moving one task from 'todo' to 'in-progress'.
CountsAfterStart ==
    /\ todoCount' = todoCount - 1
    /\ inProgressCount' = inProgressCount + 1
    /\ totalTasks' = totalTasks
    /\ testingCount' = testingCount
    /\ doneCount' = doneCount

\* C6, as stated: moveTask(id, 'in-progress') on a 'todo' task returns true,
\* todoCount is one less, inProgressCount one more, totalTasks and the other two
\* counts are unchanged, and the task's updatedAt is strictly greater than before.
C6_MoveStrictlyLater ==
    [][\A id \in IdsOf(tasks) :
          LET i == FindIndex(tasks, id)
          IN  tasks[i].status = "todo" /\ moveTask(id, "in-progress")
                  => /\ ret'.ok
                     /\ CountsAfterStart
                     /\ tasks'[i].updatedAt.t > tasks[i].updatedAt.t]_vars

\* C6, amended: moveTask(id, 'in-progress') on a 'todo' task returns true,
\* todoCount is one less, inProgressCount one more, totalTasks and the other two
\* counts are unchanged, and the task's updatedAt is the clock reading at the
\* move (later than before only if the clock has advanced since).
C6_MoveStampsNow ==
    [][\A id \in IdsOf(tasks) :
          LET i == FindIndex(tasks, id)
          IN  tasks[i].status = "todo" /\ moveTask(id, "in-progress")
                  => /\ ret'.ok
                     /\ CountsAfterStart
                     /\ tasks'[i].updatedAt = Date(now)
                     /\ (now > tasks[i].updatedAt.t
                            => tasks'[i].updatedAt.t > tasks[i].updatedAt.t)]_vars

C6_Witness ==
    /\ lastOp.name = "moveTask"
    /\ lastOp.arg = "in-progress"
    /\ ret.ok
    /\ nOps = 3
    /\ nextId = 1
    /\ Len(tasks) = 1
    /\ tasks[1].id = lastOp.id
    /\ tasks[1].title = "a"
    /\ tasks[1].status = "in-progress"
    /\ tasks[1].createdAt = Date(1)
    /\ tasks[1].updatedAt = Date(2)

\* round(100 * c / t) in exact arithmetic, halves upwards.
ExactRate(c, t) == (200 * c + t) \div (2 * t)

\* C7: completionRate is round(100 * doneCount / totalTasks) when totalTasks > 0
\* and 0 when totalTasks = 0, so an integer between 0 and 100.
C7_RateIsRoundedPercentage ==
    rateResult # -1
        => /\ rateResult = IF rateTotal > 0 THEN ExactRate(rateCompleted, rateTotal) ELSE 0
           /\ rateResult \in 0..100

\* C8: after any sequence of store operations every task of the collection has
\* one of the four statuses.
C8_StatusesAreKnown ==
    \A i \in 1..Len(tasks) : tasks[i].status \in TaskStatus

\* C9: no two tasks of the collection share an id.
C9_IdsAreUnique ==
    \A i, j \in 1..Len(tasks) : tasks[i].id = tasks[j].id => i = j

\* C10: updateTask with any partial fields and moveTask with any status leave
\* the targeted task its id and createdAt and set its updatedAt to the current
\* time.
C10_IdAndCreatedAtAreFixed ==
    [][\A id \in IdsOf(tasks) :
          LET i == FindIndex(tasks, id)
          IN  \/ \E u \in UpdateInputs : updateTask(id, u)
              \/ \E st \in TaskStatus : moveTask(id, st)
              => /\ tasks'[i].id = tasks[i].id
                 /\ tasks'[i].createdAt = tasks[i].createdAt
                 /\ tasks'[i].updatedAt = Date(now)]_vars

\* C11: deleteTask(id) on an existing id returns true, removes exactly one task
\* with that id, sets the selection to null if the selected task has that id
\* and leaves the selection as it is otherwise.
C11_DeleteRemovesOneAndDeselects ==
    [][\A id \in IdsOf(tasks) :
          deleteTask(id)
              => /\ ret'.ok
                 /\ \E i \in 1..Len(tasks) :
                       /\ tasks[i].id = id
                       /\ tasks' = SubSeq(tasks, 1, i - 1) \o SubSeq(tasks, i + 1, Len(tasks))
                 /\ selectedTask' = IF selectedTask # NoTask /\ selectedTask.id = id
                                    THEN NoTask ELSE selectedTask]_vars

C11_Witness ==
    /\ lastOp.name = "deleteTask"
    /\ ret.ok
    /\ selectedTask # NoTask
    /\ selectedTask.id # lastOp.id
    /\ tasks # <<>>

\* C12, as stated: after reset(), also when its storage write fails, the task
\* collection is empty, loading is false, the error message is null and the
\* selected task is null.
C12_ResetClearsEverything ==
    [][reset
          => /\ tasks' = <<>>
             /\ isLoading' = FALSE
             /\ error' = NoError
             /\ selectedTask' = NoTask]_vars

\* C12, amended: after reset() the task collection is empty, loading is false
\* and the selected task is null; the error message is null when the storage
\* write of reset succeeds and 'Failed to save data locally' when it fails.
C12_ResetClearsButReportsFailedWrite ==
    [][reset
          => /\ tasks' = <<>>
             /\ isLoading' = FALSE
             /\ selectedTask' = NoTask
             /\ error' = IF setItemThrows THEN ErrSave ELSE NoError]_vars

C12_Witness ==
    /\ lastOp.name = "reset"
    /\ setItemThrows
    /\ error = ErrSave
    /\ tasks = <<>>
    /\ isLoading = FALSE
    /\ storage.k = "object"
    /\ storage.tasks.items # <<>>

\* C13: when localStorage.setItem throws during addTask, addTasks, updateTask,
\* deleteTask, moveTask, clearCompletedTasks or clearAllTasks, the operation
\* still applies its change in memory and returns its normal value, and the
\* error message becomes 'Failed to save data locally'.
C13_FailedWriteDoesNotAbort ==
    [][setItemThrows
          => /\ \A task \in {TodoA, DoneB} :
                   addTask(task)
                       => /\ error' = ErrSave
                          /\ tasks' = Append(tasks, ret'.tasks[1])
                          /\ ret'.tasks[1].title = task.title
             /\ \A list \in TaskLists :
                   addTasks(list)
                       => /\ error' = ErrSave
                          /\ tasks' = tasks \o ret'.tasks
                          /\ Len(ret'.tasks) = Len(list)
             /\ \A id \in IdsOf(tasks) :
                   /\ \A u \in UpdateInputs :
                         updateTask(id, u)
                             => /\ error' = ErrSave
                                /\ ret'.ok
                                /\ \A f \in DOMAIN u : tasks'[FindIndex(tasks, id)][f] = u[f]
                   /\ deleteTask(id)
                         => error' = ErrSave /\ ret'.ok /\ Len(tasks') = Len(tasks) - 1
                   /\ \A st \in TaskStatus :
                         moveTask(id, st)
                             => /\ error' = ErrSave
                                /\ ret'.ok
                                /\ tasks'[FindIndex(tasks, id)].status = st
             /\ clearCompletedTasks
                   => error' = ErrSave /\ ret'.n = doneCount /\ tasks' = FilterNotDone(tasks)
             /\ clearAllTasks
                   => error' = ErrSave /\ ret'.n = totalTasks /\ tasks' = <<>>]_vars

C13_Witness ==
    /\ lastOp.name = "moveTask"
    /\ ret.ok
    /\ setItemThrows
    /\ error = ErrSave
    /\ \E i \in 1..Len(tasks) : tasks[i].id = lastOp.id /\ tasks[i].status = lastOp.arg

\* What loadFromStorage is documented to treat as absent: nothing stored, or an
\* object whose version is not 1 or whose tasks is not an array.
IllShaped(blob) ==
    \/ blob.k = "absent"
    \/ blob.k = "object" /\ ~(blob.version = 1 /\ blob.tasks.k = "array")

\* C14: when the stored value is missing, or is an object whose version is not
\* 1 or whose tasks is not an array, loadFromStorage leaves the task collection,
\* the selection and the error message as they were.
C14_IllShapedBlobIsIgnored ==
    [][IllShaped(storage) /\ loadFromStorage(TRUE)
          => /\ tasks' = tasks
             /\ selectedTask' = selectedTask
             /\ error' = error]_vars

C14_Witness ==
    /\ lastOp.name = "loadFromStorage"
    /\ lastOp.arg = "skip"
    /\ storage.k = "object"
    /\ tasks # <<>>

\* C15: when localStorage.getItem throws or the stored text does not parse,
\* loadFromStorage leaves the task collection unchanged and the error message
\* keeps its prior value.
C15_FailedReadIsSilent ==
    [][\A readOk \in BOOLEAN :
          (~readOk \/ storage.k = "garbage") /\ loadFromStorage(readOk)
              => tasks' = tasks /\ error' = error]_vars

\* The operations that write the collection through to localStorage.
WritingOps ==
    {"addTask", "addTasks", "updateTask", "deleteTask", "moveTask",
     "clearCompletedTasks", "clearAllTasks", "importData", "reset"}

\* C16: while storage writes succeed, after every operation that changes the
\* task collection the stored blob has version 1 and a tasks list equal, task
\* for task and in order, to the collection, so that a loadFromStorage at that
\* point would leave the collection unchanged.
C16_WriteThrough ==
    [][lastOp'.name \in WritingOps /\ tasks' # tasks /\ ~setItemThrows
          => /\ storage'.k = "object"
             /\ storage'.version = 1
             /\ storage'.tasks = Array(SerializeAll(tasks'))
             /\ \A i \in 1..Len(tasks') :
                   Rehydrate(storage'.tasks.items[i], tasks'[i].obj) = tasks'[i]]_vars

\* C17: after any sequence of navigation-store operations exactly one entry of
\* the list has active = true.
C17_ExactlyOneActive ==
    Cardinality({i \in 1..Len(navItems) : navItems[i].active}) = 1

\* C18: removeNavigationItem('kanban') returns false and changes nothing, and
\* an entry with id 'kanban' is in the list in every reachable state.
C18_KanbanIsNeverRemoved ==
    /\ \E i \in 1..Len(navItems) : navItems[i].id = "kanban"
    /\ [][/\ removeNavigationItem("kanban")
                => /\ ret'.ok = FALSE
                   /\ navItems' = navItems
                   /\ activeItem' = activeItem
                   /\ sidebarCollapsed' = sidebarCollapsed
          /\ \E i \in 1..Len(navItems') : navItems'[i].id = "kanban"]_vars

C18_Witness ==
    /\ lastOp.name = "removeNavigationItem"
    /\ lastOp.arg = "kanban"
    /\ ret.ok = FALSE
    /\ Len(navItems) > 1
    /\ activeItem # "kanban"

\* C19: whenever removeNavigationItem(id) returns true for the id that is
\* active, afterwards currentActiveItem is 'kanban' and the kanban entry has
\* active = true, also when the kanban entry is disabled.
C19_RemovingActiveFallsBack ==
    [][\A itemId \in NavTargets :
          activeItem = itemId /\ removeNavigationItem(itemId) /\ ret'.ok
              => /\ activeItem' = "kanban"
                 /\ \E i \in 1..Len(navItems') : navItems'[i].id = "kanban" /\ navItems'[i].active]_vars

\* C20: setActiveItem(id) returns false and leaves the active id and every
\* entry's active flag unchanged when id is unknown or its entry is disabled;
\* otherwise it returns true, currentActiveItem is id, that entry is active
\* and every other entry is not.
C20_SetActiveItem ==
    [][\A itemId \in NavTargets :
          setActiveItem(itemId)
              => LET i == FindItem(navItems, itemId)
                 IN  IF i = 0 \/ navItems[i].disabled
                     THEN /\ ret'.ok = FALSE
                          /\ activeItem' = activeItem
                          /\ Len(navItems') = Len(navItems)
                          /\ \A j \in 1..Len(navItems) : navItems'[j].active = navItems[j].active
                     ELSE /\ ret'.ok
                          /\ activeItem' = itemId
                          /\ Len(navItems') = Len(navItems)
                          /\ \A j \in 1..Len(navItems) :
                                /\ navItems'[j].id = navItems[j].id
                                /\ navItems'[j].active = (navItems[j].id = itemId)]_vars

C20_Witness ==
    /\ lastOp.name = "setActiveItem"
    /\ ret.ok
    /\ activeItem = lastOp.arg
    /\ activeItem # "kanban"
    /\ Len(navItems) = 3
    /\ \A j \in 1..Len(navItems) : navItems[j].active = (navItems[j].id = activeItem)

\* C21: addNavigationItem with an id already in the list returns false and
\* leaves the list unchanged, otherwise it appends the entry at the end with
\* active = false; so the ids of the list are pairwise distinct in every
\* reachable state.
C21_NavigationIdsStayUnique ==
    /\ \A i, j \in 1..Len(navItems) : navItems[i].id = navItems[j].id => i = j
    /\ [][/\ \A itemId \in NavIds, d \in BOOLEAN :
                addNavigationItem([id |-> itemId, disabled |-> d])
                    => IF \E i \in 1..Len(navItems) : navItems[i].id = itemId
                       THEN ret'.ok = FALSE /\ navItems' = navItems
                       ELSE /\ ret'.ok
                            /\ navItems' = Append(navItems, [id |-> itemId, active |-> FALSE,
                                                             disabled |-> d])
          /\ \A i, j \in 1..Len(navItems') : navItems'[i].id = navItems'[j].id => i = j]_vars

C21_Witness ==
    /\ lastOp.name = "addNavigationItem"
    /\ ret.ok = FALSE
    /\ lastOp.arg # "kanban"
    /\ Len(navItems) = 3

\* C22: with E the non-disabled entries in list order, n = |E| >= 1 and the
\* active entry E[i], getNextItem returns E[(i+1) mod n] and getPreviousItem
\* returns E[(i-1) mod n]; with n = 1 both return the active entry.
C22_CircularTraversal ==
    LET E == enabledItems
        n == Len(E)
    IN  \A i \in 1..n :
           E[i].id = activeItem
               => /\ getNextItem = E[(i % n) + 1].id
                  /\ getPreviousItem = E[((i + n - 2) % n) + 1].id
                  /\ (n = 1 => getNextItem = activeItem /\ getPreviousItem = activeItem)

C22_Witness ==
    /\ lastOp.name = "navigateNext"
    /\ Len(navItems) = 3
    /\ Len(enabledItems) = 2
    /\ activeItem = enabledItems[2].id
    /\ getNextItem = enabledItems[1].id

\* C23: getNextItem and getPreviousItem never return a disabled entry, and each
\* returns null exactly when the list has no enabled entry; when the active id
\* is that of a disabled or missing entry they return the first and the last
\* enabled entry.
C23_TraversalSkipsDisabled ==
    LET anyEnabled == \E j \in 1..Len(navItems) : ~navItems[j].disabled
        firstEnabled == CHOOSE j \in 1..Len(navItems) :
                            ~navItems[j].disabled /\ \A k \in 1..(j - 1) : navItems[k].disabled
        lastEnabled == CHOOSE j \in 1..Len(navItems) :
                           /\ ~navItems[j].disabled
                           /\ \A k \in (j + 1)..Len(navItems) : navItems[k].disabled
        activeEnabled == \E j \in 1..Len(navItems) :
                             navItems[j].id = activeItem /\ ~navItems[j].disabled
    IN  /\ (getNextItem = "") <=> ~anyEnabled
        /\ (getPreviousItem = "") <=> ~anyEnabled
        /\ \A j \in 1..Len(navItems) :
              navItems[j].id \in {getNextItem, getPreviousItem} => ~navItems[j].disabled
        /\ anyEnabled /\ ~activeEnabled
              => /\ getNextItem = navItems[firstEnabled].id
                 /\ getPreviousItem = navItems[lastEnabled].id

C23_Witness ==
    /\ Len(navItems) = 3
    /\ \E j \in 1..Len(navItems) : navItems[j].id = activeItem /\ navItems[j].disabled
    /\ Len(enabledItems) = 2
    /\ getNextItem = enabledItems[1].id
    /\ getPreviousItem = enabledItems[2].id

\* C24: handleSidebarError, from any reachable state of the navigation store,
\* leaves the sidebar expanded and the active item 'kanban' with the kanban
\* entry flagged active; when setActiveItem('kanban') fails because kanban is
\* disabled, it does so by resetting the whole navigation store.
C24_SidebarErrorEndsSafe ==
    [][handleSidebarError
          => /\ sidebarCollapsed' = FALSE
             /\ activeItem' = "kanban"
             /\ \E i \in 1..Len(navItems') : navItems'[i].id = "kanban" /\ navItems'[i].active
             /\ (\E i \in 1..Len(navItems) : navItems[i].id = "kanban" /\ navItems[i].disabled)
                   => navItems' = <<KanbanItem>>]_vars

C24_Witness ==
    /\ lastOp.name = "handleSidebarError"
    /\ lastOp.arg = "reset"
    /\ activeItem = "kanban"
    /\ sidebarCollapsed = FALSE
    /\ navItems = <<KanbanItem>>

\* C28: in every reachable state of the navigation store currentActiveItem is
\* the id of an entry that is in the list, is not disabled and is the entry
\* whose active flag is true.
C28_ActiveIdIsUsable ==
    \E i \in 1..Len(navItems) :
        /\ navItems[i].id = activeItem
        /\ ~navItems[i].disabled
        /\ \A j \in 1..Len(navItems) : navItems[j].active <=> j = i

\* C29: from a state whose active entry is enabled, navigateNext followed by
\* navigatePrevious, and navigatePrevious followed by navigateNext, restore the
\* active id and the active flags, and navigateNext applied n times, n the
\* number of enabled entries, returns to the starting active entry.
C29_NextAndPreviousAreInverse ==
    /\ navScen.kind \in {"nextprev", "prevnext"}
          => /\ activeItem = navScen.activeItem
             /\ Len(navItems) = Len(navScen.items)
             /\ \A j \in 1..Len(navItems) : navItems[j].active = navScen.items[j].active
    /\ navScen.kind = "next" /\ navScen.count = navScen.n
          => activeItem = navScen.activeItem

\* C25: handleKanbanError clears the error and reloads from storage, and
\* whenever that reload fails (the stored blob unreadable or unparseable) the
\* store is reset: afterwards the task collection is empty and the error
\* message is null.
C25_KanbanErrorResetsOnFailedReload ==
    [][\A readOk \in BOOLEAN :
          LoadOutcome(readOk) = "throw" /\ handleKanbanError(readOk)
              => tasks' = <<>> /\ error' = NoError]_vars

\* C26: with selectTask only ever given null or a task of the collection, the
\* selected task, when non-null, has an id that is in the task collection.
C26_SelectionNeverDangles ==
    selectedTask # NoTask => selectedTask.id \in IdsOf(tasks)

\* C27: each task of the collection is in exactly one of the four columns of
\* boardData, and todoCount + inProgressCount + testingCount + doneCount equals
\* totalTasks.
C27_BoardPartitionsTasks ==
    /\ Len(boardData.columns) = 4
    /\ \A i \in 1..Len(tasks) :
          Cardinality({c \in 1..Len(boardData.columns) :
                          tasks[i] \in Range(boardData.columns[c].tasks)}) = 1
    /\ todoCount + inProgressCount + testingCount + doneCount = totalTasks

\* C30: updateTask and moveTask with an existing id keep the length of the
\* collection and every task but the first one with that id as it was, in its
\* place; deleteTask removes that one task and keeps the others, their fields
\* and their relative order; none of the three changes the navigation store or
\* the column configuration.
C30_OnlyTheTargetIsTouched ==
    [][\A taskId \in IdsOf(tasks) :
          LET k == CHOOSE i \in 1..Len(tasks) :
                       tasks[i].id = taskId /\ \A j \in 1..(i - 1) : tasks[j].id # taskId
              others == /\ Len(tasks') = Len(tasks)
                        /\ \A i \in 1..Len(tasks) : i # k => tasks'[i] = tasks[i]
              outside == UNCHANGED <<navItems, activeItem, sidebarCollapsed, columns>>
          IN  /\ lastOp'.name = "updateTask" /\ lastOp'.id = taskId
                 /\ (\E u \in UpdateInputs : updateTask(taskId, u))
                    => others /\ outside /\ tasks'[k] # tasks[k]
              /\ lastOp'.name = "moveTask" /\ lastOp'.id = taskId
                 /\ (\E st \in TaskStatus : moveTask(taskId, st))
                    => others /\ outside /\ tasks'[k].obj = tasks[k].obj
              /\ lastOp'.name = "deleteTask" /\ lastOp'.id = taskId /\ deleteTask(taskId)
                    => /\ Len(tasks') = Len(tasks) - 1
                       /\ \A i \in 1..(k - 1) : tasks'[i] = tasks[i]
                       /\ \A i \in k..Len(tasks') : tasks'[i] = tasks[i + 1]
                       /\ outside]_vars

C30_Witness ==
    /\ lastOp.name = "deleteTask"
    /\ ret.ok
    /\ Len(tasks) = 1
    /\ tasks[1].id = lastOp.id
    /\ columns # DefaultColumns

====
